---- MODULE Spec2Model ----
(***************************************************************************)
(* Model of the FFI macros of ffi-utils (src/macros.rs): ffi_error,        *)
(* ffi_result, ffi_result_code, ffi_error_code, call_result_cb and try_cb. *)
(*                                                                         *)
(* Strings are sequences of bytes, so that an embedded nul byte, the       *)
(* nul terminator of a C string and the text of a literal are all          *)
(* observable.  One behaviour is one expansion of one macro on one input.  *)
(***************************************************************************)
EXTENDS Integers, Sequences, FiniteSets

\* ------------------------------------------------------------------ bounds
\* longest text an error is built from (TestError::from(text))
MaxLen == 2
\* number of distinct user-data addresses a caller may supply
MaxAddr == 2

\* ----------------------------------------------------------------- strings
\* the nul byte
NUL == 0

\* bytes the generated texts are made of: nul, 'h', 'y'
Alphabet == {NUL, 104, 121}

\* "howdy", the text of the second test case
HOWDY == <<104, 111, 119, 100, 121>>

\* "Test Error", the description the first test case expects
TEST_ERROR_DESC == <<84, 101, 115, 116, 32, 69, 114, 114, 111, 114>>

\* String::default(): the empty string
String_default == <<>>

\* all byte strings of length at most n over Alphabet
RECURSIVE StringsUpTo(_)
StringsUpTo(n) ==
    IF n = 0 THEN {<<>>}
    ELSE LET shorter == StringsUpTo(n - 1)
         IN  shorter \cup {Append(s, b) : s \in shorter, b \in Alphabet}

Texts == StringsUpTo(MaxLen) \cup {HOWDY}

\* whether the byte string holds a nul byte
HasNul(s) == \E i \in 1..Len(s) : s[i] = NUL

\* ------------------------------------------------------------ Option, Result
None == [kind |-> "None"]
Some(x) == [kind |-> "Some", val |-> x]
Ok(x) == [kind |-> "Ok", val |-> x]
Err(e) == [kind |-> "Err", val |-> e]
\* a bare value of type T (not wrapped in an Option)
Value(x) == [kind |-> "value", val |-> x]
\* a local that has not been assigned yet
Unset == [kind |-> "unset"]
\* an owned String holding the given bytes
Str(bytes) == [kind |-> "String", bytes |-> bytes]
\* the null pointer
Null == [kind |-> "null"]
\* a non-null pointer to the given bytes
Ptr(bytes) == [kind |-> "ptr", bytes |-> bytes]
\* a *mut c_void holding the given address
VoidPtr(a) == [kind |-> "c_void", addr |-> a]

\* --------------------------------------------------------------- TestError
\* the error type of the tests: the variant Test, or FromStr(text)
TestError_Test == [variant |-> "Test", text |-> <<>>]
TestError_from(s) == [variant |-> "FromStr", text |-> s]

Errors == {TestError_Test} \cup {TestError_from(s) : s \in Texts}

\* ErrorCode::error_code
error_code_of(err) == IF err.variant = "Test" THEN -1 ELSE -2

\* Display: err.to_string()
to_string(err) == IF err.variant = "Test" THEN TEST_ERROR_DESC ELSE err.text

\* str's Debug escaping, on the bytes of Alphabet and HOWDY: nul becomes \0
RECURSIVE escape_debug(_)
escape_debug(s) ==
    IF s = <<>> THEN <<>>
    ELSE (IF Head(s) = NUL THEN <<92, 48>> ELSE <<Head(s)>>) \o escape_debug(Tail(s))

\* Debug: format!("{:?}", err); Test or FromStr("text")
fmt_debug(err) ==
    IF err.variant = "Test" THEN <<84, 101, 115, 116>>
    ELSE <<70, 114, 111, 109, 83, 116, 114, 40, 34>> \o escape_debug(err.text) \o <<34, 41>>

\* ------------------------------------------------------------------ inputs
Values == {7, 42}
Results == {Ok(v) : v \in Values} \cup {Err(e) : e \in Errors}

\* user data: a raw *mut c_void, or an OpaqueCtx wrapping one
UserDatas == [kind : {"raw", "OpaqueCtx"}, addr : 1..MaxAddr]

\* $user_data.into(): the *mut c_void the callback takes
into_ptr(ud) == VoidPtr(ud.addr)

Macros == {"ffi_error", "ffi_result", "ffi_result_code", "ffi_error_code",
           "call_result_cb", "try_cb"}

\* CallbackArgs::default(): no auxiliary argument
CallbackArgs_default == <<>>

\* ------------------------------------------------------- the pure macros
\* Each yields the value the macro evaluates to and the log entries it emits.

\* log::debug!("**ERRNO: {}** {}", err_code, err_str)
log_debug(err_code, err_str) ==
    [level |-> "debug", fmt |-> "**ERRNO: {}** {}", err_code |-> err_code, err_str |-> err_str]

\* an ffi_error_code that logs and then yields 0 instead of the error's code
ffi_error_code_zero(err) ==
    [value |-> 0, logged |-> <<log_debug(error_code_of(err), fmt_debug(err))>>]

\* an ffi_error_code without its log::debug! line
ffi_error_code_silent(err) == [value |-> error_code_of(err), logged |-> <<>>]

ffi_error_code(err) ==
    LET err_str == fmt_debug(err)
        err_code == error_code_of(err)
    IN  [value |-> err_code, logged |-> <<log_debug(err_code, err_str)>>]

\* an ffi_error that takes the description from Debug instead of Display
ffi_error_debug_desc(err) ==
    LET err_code == ffi_error_code(err)
    IN  [value |-> <<err_code.value, Str(fmt_debug(err))>>, logged |-> err_code.logged]

ffi_error(err) ==
    LET err_code == ffi_error_code(err)
        err_desc == to_string(err)
    IN  [value |-> <<err_code.value, Str(err_desc)>>, logged |-> err_code.logged]

\* an ffi_result whose Ok arm yields -1 instead of 0
ffi_result_ok_nonzero(r) ==
    IF r.kind = "Ok" THEN [value |-> <<-1, Str(String_default)>>, logged |-> <<>>]
    ELSE ffi_error(r.val)

ffi_result(r) ==
    IF r.kind = "Ok" THEN [value |-> <<0, Str(String_default)>>, logged |-> <<>>]
    ELSE ffi_error(r.val)

ffi_result_code(r) ==
    IF r.kind = "Ok" THEN [value |-> 0, logged |-> <<>>]
    ELSE ffi_error_code(r.val)

\* a NativeResult built with an absent description
NativeResult_no_description(code, desc) == [error_code |-> code, description |-> None]

\* NativeResult { error_code, description: Some(description) }
NativeResult(code, desc) == [error_code |-> code, description |-> Some(desc)]

\* NativeResult::into_repr_c: Result<FfiResult, NulError>
into_repr_c(native) ==
    IF native.description.kind = "None"
    THEN Ok([error_code |-> 0, description |-> Null])
    ELSE IF HasNul(native.description.val.bytes)
         THEN Err("NulError")
         ELSE Ok([error_code |-> native.error_code,
                  description |-> Ptr(native.description.val.bytes \o <<NUL>>)])

\* b"Could not convert error description into CString\x00"
FALLBACK_DESC ==
    <<67, 111, 117, 108, 100, 32, 110, 111, 116, 32, 99, 111, 110, 118, 101, 114,
      116, 32, 101, 114, 114, 111, 114, 32, 100, 101, 115, 99, 114, 105, 112, 116,
      105, 111, 110, 32, 105, 110, 116, 111, 32, 67, 83, 116, 114, 105, 110, 103, NUL>>

\* a fallback FfiResult whose literal lacks the \x00 terminator
fallback_unterminated(code) ==
    [error_code |-> code, description |-> Ptr(SubSeq(FALLBACK_DESC, 1, Len(FALLBACK_DESC) - 1))]

\* the FfiResult of the Err(_) arm of call_result_cb
fallback_FfiResult(code) == [error_code |-> code, description |-> Ptr(FALLBACK_DESC)]

\* $cb.call(user_data, &res, args): what the callback is handed
cb_call(ud, ffi_res, args) == [user_data |-> ud, result |-> ffi_res, args |-> args]

\* ------------------------------------------------------------------- state
VARIABLES
    macro,        \* the macro being expanded and run
    pc,           \* position in its expansion
    result,       \* $result (for ffi_error and ffi_error_code: Err($err))
    user_data,    \* $user_data, the caller's value
    error_code,   \* call_result_cb: let (error_code, _)
    description,  \* call_result_cb: let (_, description)
    res,          \* call_result_cb: let res = NativeResult {..}.into_repr_c()
    native,       \* call_result_cb: the NativeResult built on the way
    log,          \* the log entries emitted so far
    calls,        \* the invocations of $cb so far
    ret,          \* the value the macro evaluated to
    scope_ret,    \* try_cb: what the enclosing scope returned
    tail_ran      \* try_cb: whether the statement after try_cb! has run

vars == <<macro, pc, result, user_data, error_code, description, res, native,
          log, calls, ret, scope_ret, tail_ran>>

\* the first position of each macro's expansion
entry(m) == IF m \in {"call_result_cb"} THEN "ffi_result" ELSE m

Init ==
    /\ macro \in Macros
    /\ result \in Results
    /\ macro \in {"ffi_error", "ffi_error_code"} => result.kind = "Err"
    /\ user_data \in UserDatas
    /\ pc = entry(macro)
    /\ error_code = Unset
    /\ description = Unset
    /\ res = Unset
    /\ native = Unset
    /\ log = <<>>
    /\ calls = <<>>
    /\ ret = Unset
    /\ scope_ret = Unset
    /\ tail_ran = FALSE

\* ----------------------------------------------------------------- actions
\* ffi_error_code!($err) on its own
Run_ffi_error_code ==
    /\ pc = "ffi_error_code"
    /\ LET out == ffi_error_code(result.val)
       IN  /\ ret' = Value(out.value)
           /\ log' = log \o out.logged
    /\ pc' = "done"
    /\ UNCHANGED <<macro, result, user_data, error_code, description, res, native,
                   calls, scope_ret, tail_ran>>

\* ffi_error!($err) on its own
Run_ffi_error ==
    /\ pc = "ffi_error"
    /\ LET out == ffi_error(result.val)
       IN  /\ ret' = Value(out.value)
           /\ log' = log \o out.logged
    /\ pc' = "done"
    /\ UNCHANGED <<macro, result, user_data, error_code, description, res, native,
                   calls, scope_ret, tail_ran>>

\* ffi_result!($res) on its own
Run_ffi_result ==
    /\ pc = "ffi_result" /\ macro = "ffi_result"
    /\ LET out == ffi_result(result)
       IN  /\ ret' = Value(out.value)
           /\ log' = log \o out.logged
    /\ pc' = "done"
    /\ UNCHANGED <<macro, result, user_data, error_code, description, res, native,
                   calls, scope_ret, tail_ran>>

\* ffi_result_code!($res) on its own
Run_ffi_result_code ==
    /\ pc = "ffi_result_code"
    /\ LET out == ffi_result_code(result)
       IN  /\ ret' = Value(out.value)
           /\ log' = log \o out.logged
    /\ pc' = "done"
    /\ UNCHANGED <<macro, result, user_data, error_code, description, res, native,
                   calls, scope_ret, tail_ran>>

\* where control goes once call_result_cb! has invoked the callback: in try_cb!
\* the statement after it is `return None`
after_call(m) == IF m = "try_cb" THEN "return_none" ELSE "done"

\* call_result_cb: let (error_code, description) = ffi_result!($result);
CallResultCb_ffi_result ==
    /\ pc = "ffi_result" /\ macro \in {"call_result_cb", "try_cb"}
    /\ LET out == ffi_result(result)
       IN  /\ error_code' = Value(out.value[1])
           /\ description' = out.value[2]
           /\ log' = log \o out.logged
    /\ pc' = "into_repr_c"
    /\ UNCHANGED <<macro, result, user_data, res, native, calls, ret, scope_ret, tail_ran>>

\* call_result_cb: let res = NativeResult { .. }.into_repr_c();
CallResultCb_into_repr_c ==
    /\ pc = "into_repr_c"
    /\ native' = NativeResult(error_code.val, description)
    /\ res' = into_repr_c(native')
    /\ pc' = "match_res"
    /\ UNCHANGED <<macro, result, user_data, error_code, description, log, calls, ret,
                   scope_ret, tail_ran>>

\* call_result_cb: Ok(res) => $cb.call($user_data.into(), &res, CallbackArgs::default())
CallResultCb_Ok ==
    /\ pc = "match_res" /\ res.kind = "Ok"
    /\ calls' = Append(calls, cb_call(into_ptr(user_data), res.val, CallbackArgs_default))
    /\ pc' = after_call(macro)
    /\ UNCHANGED <<macro, result, user_data, error_code, description, res, native, log,
                   ret, scope_ret, tail_ran>>

\* a fallback arm that hands the callback a null user data
CallResultCb_Err_null_user_data ==
    /\ pc = "match_res" /\ res.kind = "Err"
    /\ calls' = Append(calls, cb_call(VoidPtr(0), fallback_FfiResult(error_code.val),
                                     CallbackArgs_default))
    /\ pc' = after_call(macro)
    /\ UNCHANGED <<macro, result, user_data, error_code, description, res, native, log,
                   ret, scope_ret, tail_ran>>

\* a fallback arm that builds the FfiResult and never calls the callback
CallResultCb_Err_no_call ==
    /\ pc = "match_res" /\ res.kind = "Err"
    /\ pc' = after_call(macro)
    /\ UNCHANGED <<macro, result, user_data, error_code, description, res, native, log,
                   calls, ret, scope_ret, tail_ran>>

\* call_result_cb: Err(_) => { let res = FfiResult {..}; $cb.call(..); }
CallResultCb_Err ==
    /\ pc = "match_res" /\ res.kind = "Err"
    /\ calls' = Append(calls, cb_call(into_ptr(user_data), fallback_FfiResult(error_code.val),
                                     CallbackArgs_default))
    /\ pc' = after_call(macro)
    /\ UNCHANGED <<macro, result, user_data, error_code, description, res, native, log,
                   ret, scope_ret, tail_ran>>

\* an Ok arm that dispatches to the callback like the Err arm
TryCb_Ok_dispatch ==
    /\ pc = "try_cb" /\ result.kind = "Ok"
    /\ pc' = "ffi_result"
    /\ UNCHANGED <<macro, result, user_data, error_code, description, res, native, log,
                   calls, ret, scope_ret, tail_ran>>

\* try_cb: Ok(value) => value; the enclosing scope goes on
TryCb_Ok ==
    /\ pc = "try_cb" /\ result.kind = "Ok"
    /\ ret' = Value(result.val)
    /\ pc' = "tail"
    /\ UNCHANGED <<macro, result, user_data, error_code, description, res, native, log,
                   calls, scope_ret, tail_ran>>

\* try_cb: e @ Err(_) => { call_result_cb!(e, $user_data, $cb); ..
TryCb_Err ==
    /\ pc = "try_cb" /\ result.kind = "Err"
    /\ pc' = "ffi_result"
    /\ UNCHANGED <<macro, result, user_data, error_code, description, res, native, log,
                   calls, ret, scope_ret, tail_ran>>

\* an Err arm without its `return None`: control falls through to the next statement
TryCb_fall_through ==
    /\ pc = "return_none"
    /\ pc' = "tail"
    /\ UNCHANGED <<macro, result, user_data, error_code, description, res, native, log,
                   calls, ret, scope_ret, tail_ran>>

\* try_cb: .. return None; }
TryCb_return_None ==
    /\ pc = "return_none"
    /\ scope_ret' = None
    /\ pc' = "done"
    /\ UNCHANGED <<macro, result, user_data, error_code, description, res, native, log,
                   calls, ret, tail_ran>>

\* the statement that follows try_cb! in the enclosing scope
Scope_tail ==
    /\ pc = "tail"
    /\ tail_ran' = TRUE
    /\ pc' = "done"
    /\ UNCHANGED <<macro, result, user_data, error_code, description, res, native, log,
                   calls, ret, scope_ret>>

Next ==
    \/ Run_ffi_error_code
    \/ Run_ffi_error
    \/ Run_ffi_result
    \/ Run_ffi_result_code
    \/ CallResultCb_ffi_result
    \/ CallResultCb_into_repr_c
    \/ CallResultCb_Ok
    \/ CallResultCb_Err
    \/ TryCb_Ok
    \/ TryCb_Err
    \/ TryCb_return_None
    \/ Scope_tail

Spec == Init /\ [][Next]_vars

\* ------------------------------------------------------------------ claims
Done == pc = "done"
IsErr == result.kind = "Err"
IsOk == result.kind = "Ok"
\* the macro run is call_result_cb!, directly or as expanded by try_cb!
Dispatching == macro \in {"call_result_cb", "try_cb"}
\* the error's description cannot become a C string
Unconvertible == IsErr /\ HasNul(to_string(result.val))

\* "Could not convert error description into CString"
TEXT_INTO_CSTRING ==
    <<67, 111, 117, 108, 100, 32, 110, 111, 116, 32, 99, 111, 110, 118, 101, 114,
      116, 32, 101, 114, 114, 111, 114, 32, 100, 101, 115, 99, 114, 105, 112, 116,
      105, 111, 110, 32, 105, 110, 116, 111, 32, 67, 83, 116, 114, 105, 110, 103>>

\* "Could not convert error description into string"
TEXT_INTO_STRING ==
    <<67, 111, 117, 108, 100, 32, 110, 111, 116, 32, 99, 111, 110, 118, 101, 114,
      116, 32, 101, 114, 114, 111, 114, 32, 100, 101, 115, 99, 114, 105, 112, 116,
      105, 111, 110, 32, 105, 110, 116, 111, 32, 115, 116, 114, 105, 110, 103>>

\* C1: a run of call_result_cb! invokes the callback exactly once on each of
\* its branches: never twice at any point, once when it has finished, and it
\* cannot stop before it has finished.
C1_CallbackExactlyOnce ==
    macro = "call_result_cb" =>
        /\ Len(calls) <= 1
        /\ Done => Len(calls) = 1
        /\ ~Done => ENABLED Next

\* C1 witness: the fallback branch has finished with its single invocation
C1_Witness ==
    /\ macro = "call_result_cb" /\ Done
    /\ Unconvertible /\ res.kind = "Err"
    /\ Len(calls) = 1

\* C2 (as stated): on an unconvertible description the callback receives the
\* original code and the nul-terminated text "Could not convert error
\* description into string".
C2_FallbackTextIntoString ==
    (Dispatching /\ Unconvertible /\ calls # <<>>) =>
        calls[1].result = [error_code |-> error_code_of(result.val),
                           description |-> Ptr(TEXT_INTO_STRING \o <<0>>)]

\* C2 (amended): on an unconvertible description the callback receives the
\* original code and the nul-terminated text "Could not convert error
\* description into CString"; the original description is not passed.
C2_FallbackTextIntoCString ==
    (Dispatching /\ Unconvertible /\ calls # <<>>) =>
        /\ calls[1].result = [error_code |-> error_code_of(result.val),
                              description |-> Ptr(TEXT_INTO_CSTRING \o <<0>>)]
        /\ calls[1].result.description # Ptr(to_string(result.val) \o <<0>>)

\* C2 witness: the callback has been invoked for an error built from a text
\* with an embedded nul byte
C2_Witness ==
    /\ macro = "call_result_cb" /\ IsErr
    /\ result.val = TestError_from(<<104, 0>>)
    /\ Len(calls) = 1

\* C3 (as stated): try_cb! on Ok(v) returns Some(v) and never invokes the callback.
C3_TryCbOkReturnsSome ==
    (macro = "try_cb" /\ IsOk /\ pc \in {"tail", "done"}) =>
        /\ ret = Some(result.val)
        /\ calls = <<>>

\* C3 (amended): try_cb! on Ok(v) evaluates to v itself, not wrapped in an
\* Option, the callback is never invoked, and the enclosing scope goes on.
C3_TryCbOkYieldsValue ==
    (macro = "try_cb" /\ IsOk) =>
        /\ calls = <<>>
        /\ pc \in {"tail", "done"} => ret = Value(result.val)
        /\ Done => (tail_ran /\ scope_ret # None)

\* C3 witness: try_cb! on Ok(42) has finished
C3_Witness ==
    /\ macro = "try_cb" /\ result = Ok(42) /\ Done
    /\ ret = Value(42) /\ calls = <<>>

\* C4: try_cb! on Err(e) invokes the callback exactly once with e's code, then
\* the enclosing scope returns None, and the statement after try_cb! never runs.
C4_TryCbErrReturnsNone ==
    (macro = "try_cb" /\ IsErr) =>
        /\ Len(calls) <= 1
        /\ ~tail_ran
        /\ pc # "tail"
        /\ calls # <<>> => calls[1].result.error_code = error_code_of(result.val)
        /\ scope_ret # Unset => (scope_ret = None /\ Len(calls) = 1)
        /\ Done => (scope_ret = None /\ Len(calls) = 1 /\ ret = Unset)
        /\ ~Done => ENABLED Next

\* C4 witness: the enclosing scope has returned None after the dispatch
C4_Witness ==
    /\ macro = "try_cb" /\ IsErr /\ Done
    /\ scope_ret = None /\ Len(calls) = 1 /\ ~tail_ran

\* C5 (as stated): ffi_result! on Ok(v) yields (0, None).
C5_OkYieldsZeroNone ==
    (macro = "ffi_result" /\ IsOk /\ Done) => ret = Value(<<0, None>>)

\* C5 (amended): ffi_result! on Ok(v) yields (0, String::default()): code 0 and
\* an empty description string, not an absent one.
C5_OkYieldsZeroEmptyString ==
    (macro = "ffi_result" /\ IsOk /\ Done) => ret = Value(<<0, Str(<<>>)>>)

\* C5 witness: ffi_result! has finished on a success
C5_Witness ==
    macro = "ffi_result" /\ IsOk /\ Done /\ ret.val[1] = 0

\* C6: ffi_error!(e) and ffi_result!(Err(e)) yield (e.error_code(), e.to_string());
\* Test yields (-1, "Test Error") and the error from "howdy" yields (-2, "howdy").
C6_ErrorYieldsCodeAndDisplay ==
    (macro \in {"ffi_error", "ffi_result"} /\ IsErr /\ Done) =>
        /\ ret = Value(<<error_code_of(result.val), Str(to_string(result.val))>>)
        /\ result.val = TestError_Test =>
               ret = Value(<<-1, Str(<<84, 101, 115, 116, 32, 69, 114, 114, 111, 114>>)>>)
        /\ result.val = TestError_from(HOWDY) =>
               ret = Value(<<-2, Str(<<104, 111, 119, 100, 121>>)>>)

\* C6 witness: ffi_error! has finished on the error built from "howdy"
C6_Witness ==
    /\ macro = "ffi_error" /\ Done
    /\ result = Err(TestError_from(<<104, 111, 119, 100, 121>>))
    /\ ret.val[1] = -2

\* the code a finished normalizing macro yielded
yielded_code == IF macro \in {"ffi_error", "ffi_result"} THEN ret.val[1] ELSE ret.val

\* C7: the code a normalizing macro yields for an error is never 0, and the code
\* call_result_cb! hands the callback is 0 exactly when the result was Ok.
C7_ZeroIffOk ==
    /\ (~Dispatching /\ Done) => (yielded_code = 0 <=> IsOk)
    /\ (Dispatching /\ error_code # Unset) => (error_code.val = 0 <=> IsOk)
    /\ (Dispatching /\ calls # <<>>) => (calls[1].result.error_code = 0 <=> IsOk)

\* C7 witness: the callback has received a non-zero code through the fallback arm
C7_Witness ==
    /\ macro = "call_result_cb" /\ Unconvertible /\ calls # <<>>
    /\ calls[1].result.error_code = -2

\* C8 (as stated): on a success call_result_cb! builds a NativeResult with code 0
\* and an absent description, and the callback receives code 0 and a null
\* description pointer.
C8_SuccessHasNoDescription ==
    (macro = "call_result_cb" /\ IsOk) =>
        /\ native # Unset => (native.error_code = 0 /\ native.description = None)
        /\ calls # <<>> => calls[1].result = [error_code |-> 0, description |-> Null]

\* C8 (amended): on a success call_result_cb! builds a NativeResult with code 0
\* and the description Some(""), and the callback receives code 0 and a non-null
\* pointer to an empty nul-terminated string.
C8_SuccessHasEmptyDescription ==
    (macro = "call_result_cb" /\ IsOk) =>
        /\ native # Unset => native = [error_code |-> 0, description |-> Some(Str(<<>>))]
        /\ calls # <<>> => calls[1].result = [error_code |-> 0, description |-> Ptr(<<0>>)]
        /\ Done => (native # Unset /\ calls # <<>>)

\* C8 witness: the callback has been invoked for a success
C8_Witness ==
    macro = "call_result_cb" /\ IsOk /\ Done /\ Len(calls) = 1

\* C9: no step of a dispatch changes the caller's user data, and every
\* invocation of the callback, from either arm, carries the address the caller
\* supplied.
C9_UserDataRoundTrips ==
    [][/\ user_data' = user_data
       /\ calls' # calls =>
              /\ Len(calls') = Len(calls) + 1
              /\ calls'[Len(calls')].user_data = VoidPtr(user_data.addr)]_vars

\* C9 witness: the fallback arm has invoked the callback with an OpaqueCtx's address
C9_Witness ==
    /\ Dispatching /\ Unconvertible /\ Len(calls) = 1
    /\ user_data = [kind |-> "OpaqueCtx", addr |-> 2]
    /\ calls[1].user_data = VoidPtr(2)

\* the one log entry the normalization of the failed result emits
expected_log ==
    <<[level |-> "debug", fmt |-> "**ERRNO: {}** {}",
       err_code |-> error_code_of(result.val), err_str |-> fmt_debug(result.val)]>>

\* C10: a dispatch of Err(e) emits exactly one log entry, with e's code and
\* e's debug representation, when the result is normalized and so before the
\* callback is invoked; a dispatch of a success emits none.
C10_OneLogEntryBeforeCallback ==
    Dispatching =>
        /\ IsOk => log = <<>>
        /\ IsErr =>
               /\ log \in {<<>>, expected_log}
               /\ error_code # Unset => log = expected_log
               /\ calls # <<>> => log = expected_log
               /\ Done => log = expected_log

\* C10 witness: the entry is in the log and the callback has not been invoked yet
C10_Witness ==
    /\ macro = "try_cb" /\ IsErr /\ pc = "match_res"
    /\ Len(log) = 1 /\ calls = <<>>
    /\ log[1].err_str = <<70, 114, 111, 109, 83, 116, 114, 40, 34, 104, 92, 48, 34, 41>>

====
